---- MODULE Spec2Model ----
\* Model of supabase/functions/slack-oauth-callback/index.ts: the Deno.serve
\* handler that exchanges a Slack OAuth code and stores the result in profiles.
\* One invocation is followed from the request to its response; the position
\* of the handler between its awaits and returns is pc.
EXTENDS Integers, Sequences, FiniteSets, TLC

VARIABLES pc, req, env, profiles, tokenData, norm, updateError, response,
          log, fetches, updates

vars == <<pc, req, env, profiles, tokenData, norm, updateError, response,
          log, fetches, updates>>

\* ---------------------------------------------------------------- bounds
\* number of rows of the profiles table (ids "1".."MaxRows")
MaxRows == 2
\* instants new Date() can return at the update
MaxClock == 2

\* ------------------------------------------------------------ JS values
\* null / undefined (the code only ever tests them with ??, ?. and !)
Nil == "<nullish>"

\* !v for the values a string-or-nullish expression can take
Truthy(v) == v # Nil /\ v # ""

\* a || b in place of a ?? b
CoalesceOr(a, b) == IF Truthy(a) THEN a ELSE b

\* a ?? b
Coalesce(a, b) == IF a # Nil THEN a ELSE b

\* obj?.field, for an object that may be nullish
OptChain(obj, field) == IF obj.present THEN obj[field] ELSE Nil

\* new Date().toISOString() of instant t
ToISOString(t) == "2025-01-01T00:00:0" \o ToString(t) \o ".000Z"

\* ------------------------------------------------------------- constants
corsHeaders == "cors"
NoHeaders == "none"

\* ------------------------------------------------------------ the inputs
Methods == {"OPTIONS", "GET", "POST"}
RowIds == {ToString(i) : i \in 1..MaxRows}
\* a user id for which the table has no row
UnknownId == ToString(MaxRows + 1)
CodeValues == {Nil, "", "code-1"}
StateValues == {Nil, ""} \cup RowIds \cup {UnknownId}
EnvValues == {Nil, "set"}

Requests == [method : Methods, code : CodeValues, state : StateValues]

Environments == [SLACK_CLIENT_ID : EnvValues, SLACK_CLIENT_SECRET : EnvValues,
                 SUPABASE_URL : EnvValues, SUPABASE_SERVICE_ROLE_KEY : EnvValues,
                 APP_URL : EnvValues]

\* the shapes of the body of the provider's answer
TopTokens == {Nil, "", "xoxb-1"}
UserTokens == {Nil, "xoxp-2"}
AuthedUsers == {[present |-> FALSE, access_token |-> Nil]}
                 \cup [present : {TRUE}, access_token : UserTokens]
Teams == {[present |-> FALSE, id |-> Nil, name |-> Nil]}
           \cup [present : {TRUE}, id : {Nil, "T1"}, name : {Nil, "Acme"}]
Webhooks == {[present |-> FALSE, url |-> Nil, channel |-> Nil, channel_id |-> Nil]}
              \cup [present : {TRUE}, url : {Nil, "https://hooks/abc"},
                    channel : {Nil, "#general"}, channel_id : {Nil, "C1"}]

TokenBodies == [isNull : {FALSE}, ok : BOOLEAN, access_token : TopTokens,
                authed_user : AuthedUsers, team : Teams,
                team_id : {Nil, "T2"}, team_name : {Nil, "Old"},
                incoming_webhook : Webhooks,
                incoming_webhook_url : {Nil, "https://hooks/xyz"}]

\* no body read yet
NoTokenData == [isNull |-> TRUE, ok |-> FALSE, access_token |-> Nil,
                authed_user |-> [present |-> FALSE, access_token |-> Nil],
                team |-> [present |-> FALSE, id |-> Nil, name |-> Nil],
                team_id |-> Nil, team_name |-> Nil,
                incoming_webhook |-> [present |-> FALSE, url |-> Nil,
                                      channel |-> Nil, channel_id |-> Nil],
                incoming_webhook_url |-> Nil]

NoNorm == [accessToken |-> Nil, teamId |-> Nil, teamName |-> Nil,
           incomingWebhookUrl |-> Nil, incomingWebhookChannel |-> Nil]

NoError == [present |-> FALSE, message |-> Nil]
ErrorOf(m) == [present |-> TRUE, message |-> m]

\* the thrown errors
FetchError == ErrorOf("error sending request")
JsonError == ErrorOf("Unexpected token < in JSON")
NullBodyError == ErrorOf("Cannot read properties of null (reading 'ok')")
CreateClientError == ErrorOf("supabaseUrl is required.")
\* the errors the update can report
UpdateErrors == {ErrorOf("permission denied for table profiles"),
                 ErrorOf("invalid input syntax for type uuid")}

\* ------------------------------------------------------------ responses
NoResponse == [status |-> 0, headers |-> NoHeaders, contentType |-> Nil,
               kind |-> "none", error |-> Nil, details |-> NoError,
               redirect |-> Nil]

EmptyResponse(status) ==
    [status |-> status, headers |-> corsHeaders, contentType |-> Nil,
     kind |-> "empty", error |-> Nil, details |-> NoError, redirect |-> Nil]

JsonResponse(status, error, details) ==
    [status |-> status, headers |-> corsHeaders,
     contentType |-> "application/json", kind |-> "json", error |-> error,
     details |-> details, redirect |-> Nil]

HtmlResponse(appUrl) ==
    [status |-> 200, headers |-> NoHeaders, contentType |-> "text/html",
     kind |-> "html", error |-> Nil, details |-> NoError, redirect |-> appUrl]

\* ------------------------------------------------------------ log lines
LogText(level, msg) == [level |-> level, msg |-> msg, kind |-> "text"]
LogPayload(level, msg, td) ==
    [level |-> level, msg |-> msg, kind |-> "tokenData", data |-> td]
LogFlags(level, msg, flags) ==
    [level |-> level, msg |-> msg, kind |-> "flags", data |-> flags]
LogError(level, msg, err) ==
    [level |-> level, msg |-> msg, kind |-> "error", data |-> err]

\* ------------------------------------------------------------ the table
InitRow(i) ==
    IF i % 2 = 1
    THEN [email |-> "user" \o ToString(i), slack_access_token |-> Nil,
          slack_team_id |-> Nil, slack_team_name |-> Nil,
          slack_channel |-> Nil, slack_webhook_url |-> Nil,
          slack_connected_at |-> Nil]
    ELSE [email |-> "user" \o ToString(i), slack_access_token |-> "xoxb-old",
          slack_team_id |-> "T0", slack_team_name |-> "Before",
          slack_channel |-> "#old", slack_webhook_url |-> "https://hooks/old",
          slack_connected_at |-> ToISOString(0)]

InitProfiles == [id \in RowIds |-> InitRow(CHOOSE i \in 1..MaxRows : ToString(i) = id)]

\* upsert in place of update: a missing row is created
UpsertRows(table, userId, payload) ==
    [id \in DOMAIN table \cup {userId} |->
        IF id = userId
        THEN [email |-> IF id \in DOMAIN table THEN table[id].email ELSE Nil,
              slack_access_token |-> payload.slack_access_token,
              slack_team_id |-> payload.slack_team_id,
              slack_team_name |-> payload.slack_team_name,
              slack_channel |-> payload.slack_channel,
              slack_webhook_url |-> payload.slack_webhook_url,
              slack_connected_at |-> payload.slack_connected_at]
        ELSE table[id]]

\* from("profiles").update(payload).eq("id", userId)
UpdateRows(table, userId, payload) ==
    [id \in DOMAIN table |->
        IF id = userId
        THEN [table[id] EXCEPT
                !.slack_access_token = payload.slack_access_token,
                !.slack_team_id = payload.slack_team_id,
                !.slack_team_name = payload.slack_team_name,
                !.slack_channel = payload.slack_channel,
                !.slack_webhook_url = payload.slack_webhook_url,
                !.slack_connected_at = payload.slack_connected_at]
        ELSE table[id]]

\* ------------------------------------------------------------------ Init
Init ==
    /\ pc = "start"
    /\ req \in Requests
    /\ env \in Environments
    /\ profiles = InitProfiles
    /\ tokenData = NoTokenData
    /\ norm = NoNorm
    /\ updateError = NoError
    /\ response = NoResponse
    /\ log = <<>>
    /\ fetches = <<>>
    /\ updates = <<>>

\* a catch block that answers without the CORS headers
CatchAllNoCors(error) ==
    /\ log' = Append(log, LogError("error", "Error:", error))
    /\ response' = [JsonResponse(500,
                      IF Truthy(error.message) THEN error.message
                      ELSE "Internal server error", NoError)
                    EXCEPT !.headers = NoHeaders]
    /\ pc' = "done"

\* catch (error) { console.error; return 500 }
CatchAll(error) ==
    /\ log' = Append(log, LogError("error", "Error:", error))
    /\ response' = JsonResponse(500,
                      IF Truthy(error.message) THEN error.message
                      ELSE "Internal server error", NoError)
    /\ pc' = "done"

\* a preflight test that never matches
PreflightNeverMatches ==
    /\ pc = "start"
    /\ pc' = "params"
    /\ UNCHANGED <<req, env, profiles, tokenData, norm, updateError, response,
                   log, fetches, updates>>

\* if (req.method === "OPTIONS") return 200
Preflight ==
    /\ pc = "start"
    /\ IF req.method = "OPTIONS"
       THEN /\ response' = EmptyResponse(200)
            /\ pc' = "done"
       ELSE /\ pc' = "params"
            /\ UNCHANGED response
    /\ UNCHANGED <<req, env, profiles, tokenData, norm, updateError, log,
                   fetches, updates>>

\* a parameter test that forgets state
ValidateParamsCodeOnly ==
    /\ pc = "params"
    /\ IF ~Truthy(req.code)
       THEN /\ response' = JsonResponse(400, "Missing code or state parameter", NoError)
            /\ pc' = "done"
       ELSE /\ pc' = "config"
            /\ UNCHANGED response
    /\ UNCHANGED <<req, env, profiles, tokenData, norm, updateError, log,
                   fetches, updates>>

\* if (!code || !state) return 400
ValidateParams ==
    /\ pc = "params"
    /\ IF ~Truthy(req.code) \/ ~Truthy(req.state)
       THEN /\ response' = JsonResponse(400, "Missing code or state parameter", NoError)
            /\ pc' = "done"
       ELSE /\ pc' = "config"
            /\ UNCHANGED response
    /\ UNCHANGED <<req, env, profiles, tokenData, norm, updateError, log,
                   fetches, updates>>

\* if (!clientId || !clientSecret) return 500
CheckOAuthConfig ==
    /\ pc = "config"
    /\ IF ~Truthy(env.SLACK_CLIENT_ID) \/ ~Truthy(env.SLACK_CLIENT_SECRET)
       THEN /\ response' = JsonResponse(500, "Slack OAuth not configured", NoError)
            /\ pc' = "done"
       ELSE /\ pc' = "fetch"
            /\ UNCHANGED response
    /\ UNCHANGED <<req, env, profiles, tokenData, norm, updateError, log,
                   fetches, updates>>

\* the request body of the token exchange
ExchangeRequest ==
    [client_id |-> env.SLACK_CLIENT_ID, client_secret |-> env.SLACK_CLIENT_SECRET,
     code |-> req.code,
     redirect_uri |-> (IF env.SUPABASE_URL = Nil THEN "undefined" ELSE env.SUPABASE_URL)
                        \o "/functions/v1/slack-oauth-callback"]

\* await fetch(...); await tokenResponse.json()
TokenExchange ==
    /\ pc = "fetch"
    /\ fetches' = Append(fetches, ExchangeRequest)
    /\ \/ /\ CatchAll(FetchError)
          /\ UNCHANGED tokenData
       \/ /\ CatchAll(JsonError)
          /\ UNCHANGED tokenData
       \/ /\ tokenData' = NoTokenData
          /\ pc' = "validate"
          /\ UNCHANGED <<response, log>>
       \/ /\ tokenData' \in TokenBodies
          /\ pc' = "validate"
          /\ UNCHANGED <<response, log>>
    /\ UNCHANGED <<req, env, profiles, norm, updateError, updates>>

\* if (!tokenData.ok) { console.error(full response); return 400 }
ValidateResponse ==
    /\ pc = "validate"
    /\ IF tokenData.isNull
       THEN CatchAll(NullBodyError)
       ELSE IF ~tokenData.ok
       THEN /\ log' = Append(log, LogPayload("error",
                         "Slack OAuth error (full response):", tokenData))
            /\ response' = JsonResponse(400, "Failed to authenticate with Slack", NoError)
            /\ pc' = "done"
       ELSE /\ pc' = "normalize"
            /\ UNCHANGED <<response, log>>
    /\ UNCHANGED <<req, env, profiles, tokenData, norm, updateError,
                   fetches, updates>>

\* tokenData.access_token ?? tokenData.authed_user?.access_token ?? null
NormalizeAccessToken(td) ==
    Coalesce(td.access_token, Coalesce(OptChain(td.authed_user, "access_token"), Nil))

\* tokenData.team?.id ?? tokenData.team_id ?? null
NormalizeTeamId(td) ==
    Coalesce(OptChain(td.team, "id"), Coalesce(td.team_id, Nil))

\* tokenData.team?.name ?? tokenData.team_name ?? null
NormalizeTeamName(td) ==
    Coalesce(OptChain(td.team, "name"), Coalesce(td.team_name, Nil))

\* tokenData.incoming_webhook?.url ?? tokenData.incoming_webhook_url ?? null
NormalizeWebhookUrl(td) ==
    Coalesce(OptChain(td.incoming_webhook, "url"),
             Coalesce(td.incoming_webhook_url, Nil))

\* tokenData.incoming_webhook?.channel ?? tokenData.incoming_webhook?.channel_id ?? null
NormalizeWebhookChannel(td) ==
    Coalesce(OptChain(td.incoming_webhook, "channel"),
             Coalesce(OptChain(td.incoming_webhook, "channel_id"), Nil))

\* the five normalized constants and the diagnostic console.log
Normalize ==
    /\ pc = "normalize"
    /\ norm' = [accessToken |-> NormalizeAccessToken(tokenData),
                teamId |-> NormalizeTeamId(tokenData),
                teamName |-> NormalizeTeamName(tokenData),
                incomingWebhookUrl |-> NormalizeWebhookUrl(tokenData),
                incomingWebhookChannel |-> NormalizeWebhookChannel(tokenData)]
    /\ log' = Append(log, LogFlags("log", "Slack tokenData fields:",
                 [hasAccessToken |-> Truthy(norm'.accessToken),
                  hasTeamId |-> Truthy(norm'.teamId),
                  hasIncomingWebhook |-> Truthy(norm'.incomingWebhookUrl)]))
    /\ pc' = "token"
    /\ UNCHANGED <<req, env, profiles, tokenData, updateError, response,
                   fetches, updates>>

\* a token test that logs and goes on ("still proceed if desired")
CheckAccessTokenProceeds ==
    /\ pc = "token"
    /\ IF ~Truthy(norm.accessToken)
       THEN log' = Append(log, LogPayload("error",
                         "No access token found in Slack response", tokenData))
       ELSE UNCHANGED log
    /\ pc' = "servicekey"
    /\ UNCHANGED <<req, env, profiles, tokenData, norm, updateError, response,
                   fetches, updates>>

\* if (!accessToken) { console.error(..., tokenData); return 400 }
CheckAccessToken ==
    /\ pc = "token"
    /\ IF ~Truthy(norm.accessToken)
       THEN /\ log' = Append(log, LogPayload("error",
                         "No access token found in Slack response", tokenData))
            /\ response' = JsonResponse(400, "Slack did not return an access token", NoError)
            /\ pc' = "done"
       ELSE /\ pc' = "servicekey"
            /\ UNCHANGED <<response, log>>
    /\ UNCHANGED <<req, env, profiles, tokenData, norm, updateError,
                   fetches, updates>>

\* if (!serviceRoleKey) { console.error; return 500 }
CheckServiceRoleKey ==
    /\ pc = "servicekey"
    /\ IF ~Truthy(env.SUPABASE_SERVICE_ROLE_KEY)
       THEN /\ log' = Append(log, LogText("error", "Missing SUPABASE_SERVICE_ROLE_KEY"))
            /\ response' = JsonResponse(500,
                   "Server misconfigured: SUPABASE_SERVICE_ROLE_KEY missing", NoError)
            /\ pc' = "done"
       ELSE /\ pc' = "client"
            /\ UNCHANGED <<response, log>>
    /\ UNCHANGED <<req, env, profiles, tokenData, norm, updateError,
                   fetches, updates>>

\* createClient(Deno.env.get("SUPABASE_URL") ?? "", serviceRoleKey): supabase-js
\* throws when the url is empty
CreateClient ==
    /\ pc = "client"
    /\ IF ~Truthy(Coalesce(env.SUPABASE_URL, ""))
       THEN CatchAll(CreateClientError)
       ELSE /\ pc' = "update"
            /\ UNCHANGED <<response, log>>
    /\ UNCHANGED <<req, env, profiles, tokenData, norm, updateError,
                   fetches, updates>>

\* the object handed to update()
UpdatePayload(n, now) ==
    [slack_access_token |-> n.accessToken,
     slack_team_id |-> n.teamId,
     slack_team_name |-> n.teamName,
     slack_channel |-> Coalesce(n.incomingWebhookChannel, Nil),
     slack_webhook_url |-> Coalesce(n.incomingWebhookUrl, Nil),
     slack_connected_at |-> ToISOString(now)]

\* const { error: updateError } = await supabaseClient.from("profiles")
\*   .update({...}).eq("id", userId): the builder resolves with the error, it
\* does not throw; a statement that fails changes no row
UpdateProfile ==
    /\ pc = "update"
    /\ \E now \in 1..MaxClock :
         LET userId == req.state
             payload == UpdatePayload(norm, now)
         IN /\ updates' = Append(updates, [id |-> userId, payload |-> payload])
            /\ \/ /\ profiles' = UpdateRows(profiles, userId, payload)
                  /\ updateError' = NoError
               \/ /\ updateError' \in UpdateErrors
                  /\ UNCHANGED profiles
    /\ pc' = "saved"
    /\ UNCHANGED <<req, env, tokenData, norm, response, log, fetches>>

\* an answer that does not look at updateError
RespondIgnoringError ==
    /\ pc = "saved"
    /\ response' = HtmlResponse(IF Truthy(env.APP_URL) THEN env.APP_URL
                                ELSE "http://localhost:5173")
    /\ pc' = "done"
    /\ UNCHANGED <<req, env, profiles, tokenData, norm, updateError, log,
                   fetches, updates>>

\* if (updateError) { console.error; return 500 } ... return the HTML page
Respond ==
    /\ pc = "saved"
    /\ IF updateError.present
       THEN /\ log' = Append(log, LogError("error", "Database update error:", updateError))
            /\ response' = JsonResponse(500, "Failed to save Slack connection", updateError)
       ELSE /\ response' = HtmlResponse(IF Truthy(env.APP_URL) THEN env.APP_URL
                                        ELSE "http://localhost:5173")
            /\ UNCHANGED log
    /\ pc' = "done"
    /\ UNCHANGED <<req, env, profiles, tokenData, norm, updateError,
                   fetches, updates>>

Next ==
    \/ Preflight
    \/ ValidateParams
    \/ CheckOAuthConfig
    \/ TokenExchange
    \/ ValidateResponse
    \/ Normalize
    \/ CheckAccessToken
    \/ CheckServiceRoleKey
    \/ CreateClient
    \/ UpdateProfile
    \/ Respond

Spec == Init /\ [][Next]_vars
\* ---------------------------------------------------------------- claims
Last(q) == q[Len(q)]

\* the catch block ran
Thrown == log # <<>> /\ Last(log).msg = "Error:"
\* fetch() or json() threw
ExchangeThrew == Thrown /\ Last(log).data \in {FetchError, JsonError}

RejectionMessages ==
    {"Missing code or state parameter", "Slack OAuth not configured",
     "Server misconfigured: SUPABASE_SERVICE_ROLE_KEY missing",
     "Failed to authenticate with Slack", "Slack did not return an access token"}

\* C1: a profile update is issued only after this invocation's one token
\* exchange returned a body with ok truthy and a resolved access token; a run
\* ending in a missing-parameter, missing-configuration, provider-rejection,
\* missing-token or thrown-error response issued no update and left the
\* profiles table as it was.
C1_UpdateOnlyAfterExchange ==
    /\ updates # <<>> =>
          /\ Len(fetches) = 1
          /\ ~tokenData.isNull
          /\ tokenData.ok
          /\ Truthy(norm.accessToken)
          /\ Last(updates).payload.slack_access_token = norm.accessToken
    /\ (pc = "done" /\ (response.error \in RejectionMessages \/ Thrown)) =>
          /\ updates = <<>>
          /\ profiles = InitProfiles

C1_Witness ==
    /\ pc = "done"
    /\ Len(fetches) = 1
    /\ Len(updates) = 1
    /\ profiles # InitProfiles

\* C2: with code and state present and the OAuth credentials configured, a
\* missing SUPABASE_SERVICE_ROLE_KEY is answered with the 500 "Server
\* misconfigured" response before any token-exchange request is issued.
C2_ConfigBeforeExchange ==
    (/\ req.method # "OPTIONS"
     /\ Truthy(req.code) /\ Truthy(req.state)
     /\ Truthy(env.SLACK_CLIENT_ID) /\ Truthy(env.SLACK_CLIENT_SECRET)
     /\ ~Truthy(env.SUPABASE_SERVICE_ROLE_KEY)) =>
        /\ fetches = <<>>
        /\ pc = "done" => response = JsonResponse(500,
               "Server misconfigured: SUPABASE_SERVICE_ROLE_KEY missing", NoError)

\* the access token values a log line shows
SecretsIn(entry) ==
    IF entry.kind = "tokenData"
    THEN {t \in {entry.data.access_token, entry.data.authed_user.access_token} :
             Truthy(t)}
    ELSE {}

\* the access token values of the provider's answer
ProviderSecrets ==
    {t \in {tokenData.access_token, tokenData.authed_user.access_token} : Truthy(t)}

\* C3: no access token value of the provider's answer appears in a log line
\* or in the response.
C3_NoTokenInLogsOrResponse ==
    /\ \A i \in DOMAIN log : SecretsIn(log[i]) = {}
    /\ {response.error, response.redirect, response.details.message}
          \cap ProviderSecrets = {}

\* the reference extraction: the first location that holds a value, else null
Present(v) == v # Nil
RefAccessToken(td) ==
    IF Present(td.access_token) THEN td.access_token
    ELSE IF td.authed_user.present /\ Present(td.authed_user.access_token)
         THEN td.authed_user.access_token
    ELSE Nil
RefTeamId(td) ==
    IF td.team.present /\ Present(td.team.id) THEN td.team.id
    ELSE IF Present(td.team_id) THEN td.team_id
    ELSE Nil
RefTeamName(td) ==
    IF td.team.present /\ Present(td.team.name) THEN td.team.name
    ELSE IF Present(td.team_name) THEN td.team_name
    ELSE Nil
RefWebhookUrl(td) ==
    IF td.incoming_webhook.present /\ Present(td.incoming_webhook.url)
    THEN td.incoming_webhook.url
    ELSE IF Present(td.incoming_webhook_url) THEN td.incoming_webhook_url
    ELSE Nil
RefChannel(td) ==
    IF td.incoming_webhook.present /\ Present(td.incoming_webhook.channel)
    THEN td.incoming_webhook.channel
    ELSE IF td.incoming_webhook.present /\ Present(td.incoming_webhook.channel_id)
         THEN td.incoming_webhook.channel_id
    ELSE Nil

\* the legacy answer of the provider
LegacyBody ==
    [isNull |-> FALSE, ok |-> TRUE, access_token |-> Nil,
     authed_user |-> [present |-> TRUE, access_token |-> "xoxp-2"],
     team |-> [present |-> FALSE, id |-> Nil, name |-> Nil],
     team_id |-> "T2", team_name |-> "Old",
     incoming_webhook |-> [present |-> FALSE, url |-> Nil, channel |-> Nil,
                           channel_id |-> Nil],
     incoming_webhook_url |-> "https://hooks/xyz"]

\* the five slack fields of a row or of an update payload
SlackFields(r) ==
    <<r.slack_access_token, r.slack_team_id, r.slack_team_name,
      r.slack_webhook_url, r.slack_channel>>

RefFields(td) ==
    <<RefAccessToken(td), RefTeamId(td), RefTeamName(td), RefWebhookUrl(td),
      RefChannel(td)>>

\* C4: the values handed to the update, and the values the matched row then
\* holds, are the reference extraction of the provider's answer; the legacy
\* answer is not rejected and is written as xoxp-2, T2, Old, https://hooks/xyz
\* with a null channel.
C4_NormalizedAsReference ==
    /\ updates # <<>> =>
          /\ SlackFields(Last(updates).payload) = RefFields(tokenData)
          /\ (~updateError.present /\ req.state \in DOMAIN profiles) =>
                 SlackFields(profiles[req.state]) = RefFields(tokenData)
    /\ tokenData = LegacyBody =>
          /\ response.error # "Slack did not return an access token"
          /\ updates # <<>> => SlackFields(Last(updates).payload) =
                 <<"xoxp-2", "T2", "Old", "https://hooks/xyz", Nil>>

C4_Witness ==
    /\ pc = "done"
    /\ tokenData = LegacyBody
    /\ req.state \in DOMAIN profiles
    /\ response.kind = "html"
    /\ SlackFields(profiles[req.state]) =
          <<"xoxp-2", "T2", "Old", "https://hooks/xyz", Nil>>

\* C5: a throw ends the invocation with a 500 JSON response that has an error
\* field and the CORS headers; at most one token-exchange request and at most
\* one update are issued, and no update when the exchange threw.
C5_ThrowIs500NoRetry ==
    /\ Len(fetches) <= 1
    /\ Len(updates) <= 1
    /\ Thrown =>
          /\ pc = "done"
          /\ response.status = 500
          /\ response.kind = "json"
          /\ response.contentType = "application/json"
          /\ Truthy(response.error)
          /\ response.headers = corsHeaders
    /\ ExchangeThrew => updates = <<>>

C5_Witness ==
    /\ pc = "done"
    /\ ExchangeThrew
    /\ Len(fetches) = 1

\* C6: an update that reports an error is answered with 500 JSON carrying
\* "Failed to save Slack connection" and the error as details, never with the
\* HTML page.
C6_UpdateErrorIs500 ==
    (pc = "done" /\ updateError.present) =>
        /\ response.status = 500
        /\ response.kind = "json"
        /\ response.error = "Failed to save Slack connection"
        /\ response.details.present
        /\ response.details = updateError
        /\ response.contentType # "text/html"

C6_Witness ==
    /\ pc = "done"
    /\ updateError.present
    /\ Len(updates) = 1

\* C7: a request other than OPTIONS without a code or without a state is
\* answered 400 "Missing code or state parameter" whatever the environment,
\* and neither the token exchange nor the update is issued.
C7_MissingParamsIs400 ==
    (req.method # "OPTIONS" /\ (~Truthy(req.code) \/ ~Truthy(req.state))) =>
        /\ fetches = <<>>
        /\ updates = <<>>
        /\ pc \in {"start", "params", "done"}
        /\ pc = "done" => response =
               JsonResponse(400, "Missing code or state parameter", NoError)

C7_Witness ==
    /\ pc = "done"
    /\ req.method = "GET"
    /\ req.code = "code-1"
    /\ req.state = ""
    /\ \A k \in DOMAIN env : Truthy(env[k])
    /\ response.status = 400

\* C8: an OPTIONS request is answered 200 with an empty body and the CORS
\* headers whatever its parameters and the environment, before anything else:
\* no parameter validation, token exchange, log line or update.
C8_PreflightShortCircuits ==
    req.method = "OPTIONS" =>
        /\ pc \in {"start", "done"}
        /\ fetches = <<>>
        /\ updates = <<>>
        /\ log = <<>>
        /\ profiles = InitProfiles
        /\ pc = "done" => response = EmptyResponse(200)

C8_Witness ==
    /\ pc = "done"
    /\ req.method = "OPTIONS"
    /\ req.code = Nil
    /\ env.SLACK_CLIENT_ID = Nil
    /\ response.status = 200

\* C9: an invocation changes nothing of profiles but the six slack fields of
\* the row whose id is state: the row ids stay the same (no row is created),
\* every other row and every other field is as before.
C9_Frame ==
    /\ DOMAIN profiles = DOMAIN InitProfiles
    /\ \A id \in DOMAIN InitProfiles :
          /\ id # req.state => profiles[id] = InitProfiles[id]
          /\ profiles[id].email = InitProfiles[id].email

C9_Witness ==
    /\ pc = "done"
    /\ Len(updates) = 1
    /\ ~updateError.present
    /\ req.state = UnknownId
    /\ response.kind = "html"

\* C10: when the 200 text/html page is returned, a row whose id is state
\* exists and holds the values normalized from this invocation's answer.
C10_SuccessMeansPersisted ==
    (pc = "done" /\ response.status = 200 /\ response.contentType = "text/html") =>
        /\ req.state \in DOMAIN profiles
        /\ SlackFields(profiles[req.state]) =
              <<norm.accessToken, norm.teamId, norm.teamName,
                norm.incomingWebhookUrl, norm.incomingWebhookChannel>>
====
